---- MODULE Spec2Model ----
(***************************************************************************)
(* State-machine model of websocket_server.py (SwitchMonitorWebSocket) and *)
(* of the supervisor start_full_system.py (SystemManager).                 *)
(*                                                                         *)
(* The server is one asyncio event loop: a task runs without interruption  *)
(* from one suspension point (an await that really suspends) to the next.  *)
(* Each action below is one such uninterrupted run of one task.  The only  *)
(* awaits that suspend are websocket.send (back-pressure / closing         *)
(* handshake), the `async for` receive and asyncio.sleep; generate_port_   *)
(* data and unregister_client are coroutines without inner suspension.     *)
(*                                                                         *)
(* websocket.send(m), as the websockets library does it: at the call the   *)
(* frame is written to the transport if the connection is open, then the   *)
(* caller may be suspended; when it resumes the call returns, or raises    *)
(* ConnectionClosed if the connection is closed.                           *)
(***************************************************************************)
EXTENDS Integers, Sequences, FiniteSets, TLC

\* ---- bounds of the model ------------------------------------------------
NumConns == 2        \* connections the environment may open
MaxFrames == 1       \* inbound frames received by the server, all told
SessionFrames == 2   \* the same, when one session is looked at on its own
MaxTicks == 2        \* iterations of start_broadcast_loop
MaxDrops == 1        \* connections closed from the peer's side
NumRolls == 2        \* outcomes of the random draws behind one request
MaxSpawns == 4       \* child processes the supervisor starts, all told
MaxScans == 4        \* POST /api/scan requests made to the web application

Conns == 1..NumConns

\* ---- configuration (SwitchMonitorWebSocket.__init__) ----------------------
switches ==
    << [ip |-> "192.168.1.1",  name |-> "Main Switch",   ports |-> 24],
       [ip |-> "192.168.1.10", name |-> "Office Switch", ports |-> 24],
       [ip |-> "192.168.1.20", name |-> "Server Switch", ports |-> 24] >>

SwitchIPs == {switches[i].ip : i \in 1..Len(switches)}

\* ---- inbound frames the clients may send ----------------------------------
UnknownIP == "10.0.0.99"
RequestIPs == SwitchIPs \cup {UnknownIP}
AskedPort == 7

\* the outcomes of the random module's draws while one request is handled
Rolls == 1..NumRolls

NoFrame == [valid |-> FALSE, type |-> "none", switch_ip |-> "", port_number |-> 0]
Malformed == [valid |-> FALSE, type |-> "garbage", switch_ip |-> "", port_number |-> 0]

Frames ==
    {Malformed}
    \cup {[valid |-> TRUE, type |-> "get_port_status", switch_ip |-> ip,
             port_number |-> AskedPort] : ip \in {"192.168.1.1", UnknownIP}}
    \cup {[valid |-> TRUE, type |-> "get_switch_ports", switch_ip |-> ip,
             port_number |-> AskedPort] : ip \in RequestIPs}
    \cup {[valid |-> TRUE, type |-> "ping", switch_ip |-> "", port_number |-> 0]}

VARIABLES
    server,         \* "running" | "closing" (main called server.close(): no
                    \*          more accepts) | "draining" (the server has closed
                    \*          its connections and waits for their handlers)
                    \*          | "dead": the process (asyncio.run(main()))
    conn,           \* conn[c]: "pending" | "open" | "closed" (by the peer or the
                    \*          transport) | "aborted" (closed by the server
                    \*          because handle_client raised or was cancelled)
                    \*          | "going_away" (closed by server.close())
    hpc,            \* hpc[c]: where handle_client(c) is suspended
    hwritten,       \* hwritten[c]: the reply c's handler is suspended in was written
    clients,        \* self.clients
    out,            \* out[c]: the messages written to connection c, in order
    nframes,        \* inbound frames the clients have yet to send
    ndrops,         \* connections closed by their peer so far
    bpc,            \* where start_broadcast_loop is
    tick,           \* ticks begun
    it_used,        \* set iterator: len(self.clients) when `for client in` began
    it_todo,        \* set iterator: the entries still ahead of its position
    it_dirty,       \* set iterator: an add happened since its last step
    cur,            \* the client the tick is sending to
    bwritten,       \* the tick's current send wrote its frame
    disconnected,   \* disconnected_clients of the tick
    tick_snapshot,  \* history: self.clients when the tick began
    last,           \* history: the frame received in the step that led here
    built,          \* the port_update message, payload included, that
                    \* broadcast_update built last
    spc,            \* start_full_system.py: where the supervisor is
    processes,      \* SystemManager.processes: (name, process) in list order
    alive,          \* the child processes that are running (poll() is None)
    nspawn,         \* child processes started so far
    discovered_switches,    \* app.py: the global list discovered_switches
    scan_pc,        \* app.py: scan_pc[s]: "none" | "scanning" | "done", the
                    \*          background thread of the s-th POST /api/scan
    port_monitor    \* app.py: the last response of GET /api/port-monitor

wsvars == << server, conn, hpc, hwritten, clients, out, nframes, ndrops, bpc, tick,
             it_used, it_todo, it_dirty, cur, bwritten, disconnected,
             tick_snapshot, last >>

svars == << spc, processes, alive, nspawn >>

avars == << discovered_switches, scan_pc, port_monitor >>

vars == << wsvars, built, svars, avars >>

bvars == << bpc, it_used, cur, bwritten, disconnected, tick_snapshot >>

Step(op, c, f) == [op |-> op, c |-> c, f |-> f]
NoStep == Step("other", 0, NoFrame)

\* ---- pure parts of the code -----------------------------------------------

\* datetime.now().isoformat(): its value plays no part in the control flow
TimeStamp == "isoformat"

\* self.clients.add(websocket)
register_add(cs, c) == cs \cup {c}

\* self.clients.discard(websocket)
unregister_client_leak(cs, c) == cs
unregister_client(cs, c) == cs \ {c}

\* for client in disconnected_clients: await self.unregister_client(client)
RECURSIVE unregister_all(_, _)
unregister_all(cs, ds) ==
    IF ds = {} THEN cs
    ELSE LET d == CHOOSE x \in ds : TRUE
         IN  unregister_all(unregister_client(cs, d), ds \ {d})

\* json.loads(message): a value, or JSONDecodeError
json_loads(f) ==
    IF f.valid
    THEN [ok |-> TRUE,
          data |-> [type |-> f.type, switch_ip |-> f.switch_ip,
                    port_number |-> f.port_number]]
    ELSE [ok |-> FALSE, data |-> [type |-> "", switch_ip |-> "", port_number |-> 0]]

\* the message built by send_initial_data
initial_data ==
    [type |-> "initial_data", switches |-> switches, timestamp |-> TimeStamp]

\* the message built by broadcast_update in tick t; the tick stands for the
\* message's identity (one message object is built per tick)
port_update_untimed(t) == [type |-> "port_update", tick |-> t]
port_update(t) ==
    [type |-> "port_update", tick |-> t, timestamp |-> TimeStamp]

NoMessage == [type |-> "none"]

\* next((s for s in self.switches if s['ip'] == switch_ip), None)
find_switch(ip) ==
    LET idx == {i \in 1..Len(switches) : switches[i].ip = ip}
    IN  IF idx = {} THEN <<>>
        ELSE << switches[CHOOSE i \in idx : \A j \in idx : i <= j] >>

\* random.choice(statuses) for port n when the draws come out as `roll`
statuses == << "up", "down", "error", "unknown" >>
random_choice(seq, roll, n) == seq[((roll * n) % Len(seq)) + 1]

\* generate_port_data: the record of one port.  The fields kept are those the
\* server itself reads or that do not depend on a draw; the other drawn
\* fields (mac_address, vlan, speed, traffic, ...) are never read back.
generate_port_data(switch_ip, port_number, roll) ==
    [port_number |-> port_number,
     status |-> random_choice(statuses, roll, port_number),
     duplex |-> "Full",
     last_seen |-> TimeStamp]

\* random.randint(1, 5): the values it may return
num_ports_to_update_or_none == 0..5
num_ports_to_update == 1..5

\* list(range(1, 25))
port_range == [i \in 1..24 |-> i]

\* random.sample(population, k): k picks without replacement; each pick takes
\* an entry of what is left of the pool
remove_at(pool, i) == SubSeq(pool, 1, i - 1) \o SubSeq(pool, i + 1, Len(pool))

RECURSIVE random_sample(_, _, _)
random_sample(pool, k, roll) ==
    IF k = 0 THEN << >>
    ELSE LET i == ((roll * k) % Len(pool)) + 1
         IN  << pool[i] >> \o random_sample(remove_at(pool, i), k - 1, roll)

\* the draws behind the update of one switch: how many ports, and which
Draws == [k : num_ports_to_update, roll : Rolls]

\* switch_update of one switch in broadcast_update
switch_update(switch, draw) ==
    LET ports_to_update == random_sample(port_range, draw.k, draw.roll)
    IN  [switch_ip |-> switch.ip, switch_name |-> switch.name,
         ports |-> [j \in 1..Len(ports_to_update) |->
                      generate_port_data(switch.ip, ports_to_update[j], draw.roll)]]

\* updates: one switch_update per configured switch, in list order
updates(draws) ==
    [i \in 1..Len(switches) |-> switch_update(switches[i], draws[i])]

\* for port_num in range(1, 25): ports.append(generate_port_data(...))
all_ports_short(switch_ip, roll) ==
    [p \in 1..23 |-> generate_port_data(switch_ip, p, roll)]
all_ports(switch_ip, roll) ==
    [p \in 1..24 |-> generate_port_data(switch_ip, p, roll)]

\* len([p for p in ports if p['status'] == 'up'])
count_not_down(ports) == Cardinality({i \in DOMAIN ports : ports[i].status # "down"})
count_up(ports) == Cardinality({i \in DOMAIN ports : ports[i].status = "up"})

\* handle_client_message: the responses (none or one) it sends for `data`
handle_client_message_answer_all(data, roll) ==
    << [type |-> "port_status", switch_ip |-> data.switch_ip,
        port_number |-> data.port_number,
        data |-> generate_port_data(data.switch_ip, data.port_number, roll),
        timestamp |-> TimeStamp] >>
handle_client_message(data, roll) ==
    IF data.type = "get_port_status"
    THEN << [type |-> "port_status", switch_ip |-> data.switch_ip,
             port_number |-> data.port_number,
             data |-> generate_port_data(data.switch_ip, data.port_number, roll),
             timestamp |-> TimeStamp] >>
    ELSE IF data.type = "get_switch_ports"
    THEN LET sw == find_switch(data.switch_ip)
         IN  IF sw # <<>>
             THEN LET ports == all_ports(data.switch_ip, roll)
                  IN  << [type |-> "switch_ports", switch_ip |-> data.switch_ip,
                          switch_name |-> sw[1].name, total_ports |-> 24,
                          active_ports |-> count_up(ports), ports |-> ports,
                          timestamp |-> TimeStamp] >>
             ELSE <<>>
    ELSE <<>>

\* the synchronous part of websocket.send(m) on connection c: the frame is
\* written if the connection is open
send_to_all(o, c, m) ==
    [d \in Conns |-> IF conn[d] = "open" THEN Append(o[d], m) ELSE o[d]]
send(o, c, m) ==
    IF conn[c] = "open" THEN [o EXCEPT ![c] = Append(@, m)] ELSE o

\* send_initial_data up to its suspension, on the connection just accepted
send_initial_data_skip(o, c) == o
send_initial_data(o, c) == [o EXCEPT ![c] = Append(@, initial_data)]

Iterating == bpc = "sending"

\* the event loop is running some other task's step: the process is alive and
\* the broadcast task is at a suspension point (or, while main waits in
\* server.wait_closed(), has ended with an exception nobody awaits)
Running ==
    \/ server = "running" /\ bpc \in {"sleep", "sending"}
    \/ server \in {"closing", "draining"} /\ bpc \in {"sleep", "sending", "crashed"}

\* ---- app.py: pure parts ---------------------------------------------------

\* PortInfo(i, "up" if i % 4 != 0 else "down", "1000", "full").__dict__
PortInfo(i) ==
    [port_number |-> i, status |-> IF i % 4 # 0 THEN "up" ELSE "down"]

\* NetworkSwitch(ip, name, ...) with the 24 ports scan_network gives it
NetworkSwitch(ip, name) ==
    [ip |-> ip, name |-> name, ports |-> [i \in 1..24 |-> PortInfo(i)]]

\* scan_network(): the same three switches on every call
scan_network ==
    << NetworkSwitch("192.168.1.1", "Main Switch"),
       NetworkSwitch("192.168.1.10", "Office Switch"),
       NetworkSwitch("192.168.1.20", "Server Switch") >>

\* the connection record get_port_monitor_data builds for one port (the
\* fields drawn at random are never read back and are left out)
connection(switch, port) ==
    [portNumber |-> port.port_number, switchIP |-> switch.ip,
     switchName |-> switch.name, duplex |-> "Full", status |-> port.status]

\* switch_ports of one switch: one connection per port, in port order
switch_ports(switch) ==
    [p \in DOMAIN switch.ports |-> connection(switch, switch.ports[p])]

\* connections: the connection records of all switches, in list order
RECURSIVE connections(_)
connections(dsw) ==
    IF dsw = << >> THEN << >>
    ELSE switch_ports(Head(dsw)) \o connections(Tail(dsw))

\* if port['status'] == 'Up': active_ports += 1
active_ports(switch) ==
    Cardinality({p \in DOMAIN switch.ports : switch.ports[p].status = "Up"})

\* switches_data: a dict keyed by switch.ip, so of several list entries with
\* one ip the last one stays
switches_data(dsw) ==
    [ip \in {dsw[i].ip : i \in DOMAIN dsw} |->
        LET i == CHOOSE k \in DOMAIN dsw :
                    dsw[k].ip = ip /\ \A j \in DOMAIN dsw : dsw[j].ip = ip => j <= k
        IN  [switchIP |-> dsw[i].ip, switchName |-> dsw[i].name,
             totalPorts |-> Len(dsw[i].ports),
             activePorts |-> active_ports(dsw[i]),
             ports |-> switch_ports(dsw[i])]]

\* len([c for c in connections if c['status'] == 'Up'])
total_connections(cs) ==
    Cardinality({i \in DOMAIN cs : cs[i].status = "Up"})

\* the body of the response of get_port_monitor_data
get_port_monitor_data(dsw) ==
    [connections |-> connections(dsw),
     switches |-> switches_data(dsw),
     stats |-> [totalConnections |-> total_connections(connections(dsw)),
                totalSwitches |-> Len(dsw)],
     timestamp |-> TimeStamp]

NoResponse == [timestamp |-> ""]

Scans == 1..MaxScans

\* ---- initial state --------------------------------------------------------
\* (app.py: initialize_data() has run before app.run)
InitWith(frames) ==
    /\ server = "running"
    /\ conn = [c \in Conns |-> "pending"]
    /\ hpc = [c \in Conns |-> "none"]
    /\ hwritten = [c \in Conns |-> FALSE]
    /\ clients = {}
    /\ out = [c \in Conns |-> <<>>]
    /\ nframes = frames
    /\ ndrops = 0
    /\ bpc = "sleep"
    /\ tick = 0
    /\ it_used = 0
    /\ it_todo = {}
    /\ it_dirty = FALSE
    /\ cur = 0
    /\ bwritten = FALSE
    /\ disconnected = {}
    /\ tick_snapshot = {}
    /\ last = NoStep
    /\ built = NoMessage
    /\ spc = "start_flask"
    /\ processes = << >>
    /\ alive = {}
    /\ nspawn = 0
    /\ discovered_switches = scan_network
    /\ scan_pc = [s \in Scans |-> "none"]
    /\ port_monitor = NoResponse

Init == InitWith(MaxFrames)

\* ---- the environment ------------------------------------------------------

\* the peer (or the network) closes the connection
Disconnect(c) ==
    /\ Running
    /\ conn[c] = "open"
    /\ ndrops < MaxDrops
    /\ ndrops' = ndrops + 1
    /\ conn' = [conn EXCEPT ![c] = "closed"]
    /\ last' = NoStep
    /\ UNCHANGED << svars, avars, built >>
    /\ UNCHANGED << server, hpc, hwritten, clients, out, nframes, tick, it_todo,
                    it_dirty, bvars >>

\* ---- handle_client --------------------------------------------------------

\* websockets.serve accepts connection c and runs handle_client ->
\* register_client -> send_initial_data, up to the suspension inside
\* websocket.send.  Connections are numbered in the order they are accepted.
Accept(c) ==
    /\ Running
    /\ server = "running"
    /\ conn[c] = "pending"
    /\ \A d \in Conns : d < c => conn[d] # "pending"
    /\ conn' = [conn EXCEPT ![c] = "open"]
    /\ clients' = register_add(clients, c)
    /\ it_dirty' = (it_dirty \/ Iterating)
    /\ out' = send_initial_data(out, c)
    /\ hpc' = [hpc EXCEPT ![c] = "init_send"]
    /\ last' = NoStep
    /\ UNCHANGED << svars, avars, built >>
    /\ UNCHANGED << server, hwritten, nframes, ndrops, tick, it_todo, bvars >>

\* the initial send returns; handle_client enters `async for message in websocket`
InitSendDone(c) ==
    /\ Running
    /\ hpc[c] = "init_send"
    /\ hpc' = [hpc EXCEPT ![c] = "recv"]
    /\ last' = NoStep
    /\ UNCHANGED << svars, avars, built >>
    /\ UNCHANGED << server, conn, hwritten, clients, out, nframes, ndrops, tick, it_todo,
                    it_dirty, bvars >>

\* the initial send raises ConnectionClosed: send_initial_data unregisters the
\* client and returns normally, so handle_client still enters its loop
InitSendFail(c) ==
    /\ Running
    /\ hpc[c] = "init_send"
    /\ conn[c] # "open"
    /\ clients' = unregister_client(clients, c)
    /\ it_todo' = it_todo \ {c}
    /\ hpc' = [hpc EXCEPT ![c] = "recv"]
    /\ last' = NoStep
    /\ UNCHANGED << svars, avars, built >>
    /\ UNCHANGED << server, conn, hwritten, out, nframes, ndrops, tick, it_dirty, bvars >>

\* `async for` yields a frame (one queued before the close, if the connection
\* is closed) that json.loads rejects: JSONDecodeError is not a
\* ConnectionClosed, so only the finally clause runs and the exception leaves
\* handle_client; the library then closes the connection
ReceiveMalformed(c, f) ==
    /\ Running
    /\ hpc[c] = "recv"
    /\ conn[c] \in {"open", "closed", "going_away"}
    /\ nframes > 0
    /\ ~json_loads(f).ok
    /\ nframes' = nframes - 1
    /\ UNCHANGED ndrops
    /\ clients' = unregister_client(clients, c)
    /\ it_todo' = it_todo \ {c}
    /\ hpc' = [hpc EXCEPT ![c] = "done"]
    /\ conn' = [conn EXCEPT ![c] = IF @ = "open" THEN "aborted" ELSE @]
    /\ last' = Step("recv", c, f)
    /\ UNCHANGED << svars, avars, built >>
    /\ UNCHANGED << server, hwritten, out, tick, it_dirty, bvars >>

\* where handle_client is once handle_client_message has called send: the
\* send is awaited, and handle_client_message is awaited in its turn, so the
\* handler is suspended in the reply and not back at `async for`
after_dispatch_detached == "recv"
after_dispatch == "reply"

\* `async for` yields a frame that decodes: handle_client_message runs up to
\* the suspension in its websocket.send, or to its end when it sends nothing
ReceiveRequest(c, f, roll) ==
    /\ Running
    /\ hpc[c] = "recv"
    /\ conn[c] \in {"open", "closed", "going_away"}
    /\ nframes > 0
    /\ json_loads(f).ok
    /\ nframes' = nframes - 1
    /\ UNCHANGED ndrops
    /\ LET resp == handle_client_message(json_loads(f).data, roll)
       IN  IF resp = <<>>
           THEN UNCHANGED << out, hwritten, hpc >>
           ELSE /\ out' = send(out, c, resp[1])
                /\ hwritten' = [hwritten EXCEPT ![c] = (conn[c] = "open")]
                /\ hpc' = [hpc EXCEPT ![c] = after_dispatch]
    /\ last' = Step("recv", c, f)
    /\ UNCHANGED << svars, avars, built >>
    /\ UNCHANGED << server, conn, clients, tick, it_todo, it_dirty, bvars >>

\* the reply's send returns: back to `async for`
ReplyDone(c) ==
    /\ Running
    /\ hpc[c] = "reply"
    /\ hwritten[c]
    /\ hpc' = [hpc EXCEPT ![c] = "recv"]
    /\ hwritten' = [hwritten EXCEPT ![c] = FALSE]
    /\ last' = NoStep
    /\ UNCHANGED << svars, avars, built >>
    /\ UNCHANGED << server, conn, clients, out, nframes, ndrops, tick, it_todo,
                    it_dirty, bvars >>

\* the reply's send raises ConnectionClosed: except ... pass, finally unregister
ReplyFail(c) ==
    /\ Running
    /\ hpc[c] = "reply"
    /\ conn[c] # "open"
    /\ clients' = unregister_client(clients, c)
    /\ it_todo' = it_todo \ {c}
    /\ hpc' = [hpc EXCEPT ![c] = "done"]
    /\ hwritten' = [hwritten EXCEPT ![c] = FALSE]
    /\ last' = NoStep
    /\ UNCHANGED << svars, avars, built >>
    /\ UNCHANGED << server, conn, out, nframes, ndrops, tick, it_dirty, bvars >>

\* `async for` ends (or raises ConnectionClosed) on a closed connection:
\* finally unregister
HandlerClose(c) ==
    /\ Running
    /\ hpc[c] = "recv"
    /\ conn[c] \in {"closed", "going_away"}
    /\ clients' = unregister_client(clients, c)
    /\ it_todo' = it_todo \ {c}
    /\ hpc' = [hpc EXCEPT ![c] = "done"]
    /\ last' = NoStep
    /\ UNCHANGED << svars, avars, built >>
    /\ UNCHANGED << server, conn, hwritten, out, nframes, ndrops, tick, it_dirty, bvars >>

\* ---- start_broadcast_loop / broadcast_update -------------------------------
\* `for client in self.clients` iterates the live set.  The set iterator
\* raises RuntimeError at its next step when len(self.clients) differs from
\* what it was when the loop began.  When the length is the same but the set
\* was added to in between, the hash table may have been rebuilt and the
\* iterator goes on from its old position in the new table: which entries
\* lie ahead of it is then arbitrary (entries may be skipped or repeated).

\* a tick that finds no client: broadcast_update returns at once, then sleep
TickIdle ==
    /\ Running
    /\ bpc = "sleep"
    /\ tick < MaxTicks
    /\ clients = {}
    /\ tick' = tick + 1
    /\ last' = NoStep
    /\ UNCHANGED << svars, avars, built >>
    /\ UNCHANGED << server, conn, hpc, hwritten, clients, out, nframes, ndrops, it_todo,
                    it_dirty, bvars >>

\* a tick builds the message, starts the iteration and calls send for the
\* first client, in which it is suspended
TickBegin(c) ==
    /\ Running
    /\ bpc = "sleep"
    /\ tick < MaxTicks
    /\ c \in clients
    /\ tick' = tick + 1
    /\ tick_snapshot' = clients
    /\ disconnected' = {}
    /\ it_used' = Cardinality(clients)
    /\ it_todo' = clients \ {c}
    /\ it_dirty' = FALSE
    /\ cur' = c
    /\ out' = send(out, c, port_update(tick'))
    /\ bwritten' = (conn[c] = "open")
    /\ bpc' = "sending"
    /\ last' = NoStep
    /\ UNCHANGED << svars, avars, built >>
    /\ UNCHANGED << server, conn, hpc, hwritten, clients, nframes, ndrops >>

\* the outcome of the send the tick is suspended in: it returns (ok) only if
\* it wrote its frame, it raises ConnectionClosed only on a closed connection
SendOutcome(ok) ==
    /\ ok => bwritten
    /\ ~ok => conn[cur] # "open"

\* disconnected_clients after the except clause
AfterSend(ok) == IF ok THEN disconnected ELSE disconnected \cup {cur}

\* what the set iterator may still yield at its next step
Ahead == IF it_dirty THEN SUBSET clients ELSE {it_todo}

\* the send returns or raises, the iterator yields the next client and the
\* tick is suspended in the send to it
BroadcastNext(ok, todo, c) ==
    /\ Running
    /\ bpc = "sending"
    /\ SendOutcome(ok)
    /\ it_used = Cardinality(clients)
    /\ todo \in Ahead
    /\ c \in todo
    /\ disconnected' = AfterSend(ok)
    /\ it_todo' = todo \ {c}
    /\ it_dirty' = FALSE
    /\ cur' = c
    /\ out' = send(out, c, port_update(tick))
    /\ bwritten' = (conn[c] = "open")
    /\ last' = NoStep
    /\ UNCHANGED << svars, avars, built >>
    /\ UNCHANGED << server, conn, hpc, hwritten, clients, nframes, ndrops, bpc, tick,
                    it_used, tick_snapshot >>

\* the send returns or raises and the iterator is exhausted: the for loop is
\* over (no suspension lies between it and the removal loop)
BroadcastLoopEnd(ok) ==
    /\ Running
    /\ bpc = "sending"
    /\ SendOutcome(ok)
    /\ it_used = Cardinality(clients)
    /\ {} \in Ahead
    /\ disconnected' = AfterSend(ok)
    /\ it_todo' = {}
    /\ it_dirty' = FALSE
    /\ bpc' = "pruning"
    /\ last' = NoStep
    /\ UNCHANGED << svars, avars, built >>
    /\ UNCHANGED << server, conn, hpc, hwritten, clients, out, nframes, ndrops, tick,
                    it_used, cur, bwritten, tick_snapshot >>

\* the clients whose send failed are unregistered, broadcast_update returns
\* and the loop sleeps until the next tick
BroadcastPrune ==
    /\ server # "dead"
    /\ bpc = "pruning"
    /\ clients' = unregister_all(clients, disconnected)
    /\ disconnected' = {}
    /\ tick_snapshot' = {}
    /\ it_used' = 0
    /\ cur' = 0
    /\ bwritten' = FALSE
    /\ bpc' = "sleep"
    /\ last' = NoStep
    /\ UNCHANGED << svars, avars, built >>
    /\ UNCHANGED << server, conn, hpc, hwritten, out, nframes, ndrops, tick, it_todo,
                    it_dirty >>

\* the send returns or raises and the iterator finds the set's size changed:
\* RuntimeError leaves broadcast_update and start_broadcast_loop
BroadcastCrash(ok) ==
    /\ Running
    /\ bpc = "sending"
    /\ SendOutcome(ok)
    /\ it_used # Cardinality(clients)
    /\ disconnected' = AfterSend(ok)
    /\ it_todo' = {}
    /\ it_dirty' = FALSE
    /\ bpc' = "crashed"
    /\ last' = NoStep
    /\ UNCHANGED << svars, avars, built >>
    /\ UNCHANGED << server, conn, hpc, hwritten, clients, out, nframes, ndrops, tick,
                    it_used, cur, bwritten, tick_snapshot >>

\* broadcast_update with clients connected, up to `message = {...}`: the message
\* it builds, payload included.  (In the actions above the tick's message is
\* port_update(tick): the payload plays no part in what the server does next.)
BroadcastBuild(draws) ==
    /\ Running
    /\ bpc = "sleep"
    /\ clients # {}
    /\ built = NoMessage
    /\ built' = [type |-> "port_update", updates |-> updates(draws),
                 timestamp |-> TimeStamp]
    /\ UNCHANGED << wsvars, svars, avars >>

\* ---- main ------------------------------------------------------------------
\* A handler that is cancelled gets CancelledError at the await it is suspended
\* in.  In the receive loop or in a reply's send that is inside handle_client's
\* try, so the finally clause unregisters the client; in the initial send it
\* is inside register_client, before the try, and nothing unregisters.
cancel_handlers(cs) ==
    unregister_all(cs, {c \in Conns : hpc[c] \in {"recv", "reply"}})

\* asyncio.gather re-raises the broadcast task's exception in main, which only
\* catches KeyboardInterrupt: main ends, asyncio.run cancels every handler
\* and the process exits.  The steps other tasks may take between the crash
\* and main's wake-up are those they could take before it, and are left out.
MainExit ==
    /\ server = "running"
    /\ bpc = "crashed"
    /\ server' = "dead"
    /\ hpc' = [c \in Conns |-> IF hpc[c] = "none" THEN "none" ELSE "done"]
    /\ hwritten' = [c \in Conns |-> FALSE]
    /\ conn' = [c \in Conns |-> IF conn[c] = "open" THEN "aborted" ELSE conn[c]]
    /\ clients' = cancel_handlers(clients)
    /\ last' = NoStep
    /\ UNCHANGED << svars, avars, built >>
    /\ UNCHANGED << out, nframes, ndrops, tick, it_todo, it_dirty, bvars >>

\* ---- main: shutdown --------------------------------------------------------
\* KeyboardInterrupt reaches main inside its try: the except clause calls
\* server.close(), which stops accepting, and main waits in
\* server.wait_closed()
InterruptCaught ==
    /\ Running
    /\ server = "running"
    /\ server' = "closing"
    /\ last' = NoStep
    /\ UNCHANGED << svars, avars, built >>
    /\ UNCHANGED << conn, hpc, hwritten, clients, out, nframes, ndrops, tick, it_todo,
                    it_dirty, bvars >>

\* the server's close task closes every open connection (close code 1001)
\* and then waits for the handlers to end
ServerCloseConns ==
    /\ Running
    /\ server = "closing"
    /\ server' = "draining"
    /\ conn' = [c \in Conns |-> IF conn[c] = "open" THEN "going_away" ELSE conn[c]]
    /\ last' = NoStep
    /\ UNCHANGED << svars, avars, built >>
    /\ UNCHANGED << hpc, hwritten, clients, out, nframes, ndrops, tick, it_todo,
                    it_dirty, bvars >>

\* every handler has ended: server.wait_closed() returns, main calls
\* broadcast_task.cancel() and returns
WaitClosedReturns ==
    /\ Running
    /\ server = "draining"
    /\ \A c \in Conns : hpc[c] \in {"none", "done"}
    /\ server' = "dead"
    /\ bpc' = IF bpc = "crashed" THEN "crashed" ELSE "cancelled"
    /\ last' = NoStep
    /\ UNCHANGED << svars, avars, built >>
    /\ UNCHANGED << conn, hpc, hwritten, clients, out, nframes, ndrops, tick, it_todo,
                    it_dirty, it_used, cur, bwritten, disconnected, tick_snapshot >>

\* the interrupt does not reach main's except clause (it is raised out of the
\* event loop, or delivered to main as a cancellation): asyncio.run cancels
\* every task, the broadcast loop and the handlers alike, and the process ends
InterruptCancel ==
    /\ Running
    /\ server = "running"
    /\ server' = "dead"
    /\ bpc' = "cancelled"
    /\ hpc' = [c \in Conns |-> IF hpc[c] = "none" THEN "none" ELSE "done"]
    /\ hwritten' = [c \in Conns |-> FALSE]
    /\ conn' = [c \in Conns |-> IF conn[c] = "open" THEN "aborted" ELSE conn[c]]
    /\ clients' = cancel_handlers(clients)
    /\ last' = NoStep
    /\ UNCHANGED << svars, avars, built >>
    /\ UNCHANGED << out, nframes, ndrops, tick, it_todo, it_dirty, it_used, cur,
                    bwritten, disconnected, tick_snapshot >>

Next ==
    \/ \E c \in Conns : Accept(c)
    \/ \E c \in Conns : Disconnect(c)
    \/ \E c \in Conns : InitSendDone(c)
    \/ \E c \in Conns : InitSendFail(c)
    \/ \E c \in Conns, f \in Frames : ReceiveMalformed(c, f)
    \/ \E c \in Conns, f \in Frames, roll \in Rolls : ReceiveRequest(c, f, roll)
    \/ \E c \in Conns : ReplyDone(c)
    \/ \E c \in Conns : ReplyFail(c)
    \/ \E c \in Conns : HandlerClose(c)
    \/ TickIdle
    \/ \E c \in clients : TickBegin(c)
    \/ \E ok \in BOOLEAN : \E todo \in Ahead : \E c \in todo : BroadcastNext(ok, todo, c)
    \/ \E ok \in BOOLEAN : BroadcastLoopEnd(ok)
    \/ BroadcastPrune
    \/ \E ok \in BOOLEAN : BroadcastCrash(ok)
    \/ MainExit

Spec == Init /\ [][Next]_vars

\* ---- start_full_system.py: SystemManager ------------------------------------
\* main installs signal_handler for SIGINT and SIGTERM before anything else, so
\* KeyboardInterrupt is never raised in the supervisor: Python raises it only
\* from the default SIGINT handler.  Popen's exceptions are caught where it is
\* called.  The except clauses of monitor_processes and main, and with them
\* stop_all_processes, are therefore never entered, and self.running stays True.

Services == {"Flask", "WebSocket"}

Entry(name, pid) == [name |-> name, pid |-> pid]

\* subprocess.Popen(...), self.processes.append((name, process)): the new list
\* when the spawn succeeds; except Exception: the list as it was
start_server(procs, name, pid, ok) ==
    IF ok THEN Append(procs, Entry(name, pid)) ELSE procs

\* start_flask_server, then time.sleep(2)
StartFlask(ok) ==
    /\ spc = "start_flask"
    /\ ok => nspawn < MaxSpawns
    /\ processes' = start_server(processes, "Flask", nspawn + 1, ok)
    /\ alive' = IF ok THEN alive \cup {nspawn + 1} ELSE alive
    /\ nspawn' = IF ok THEN nspawn + 1 ELSE nspawn
    /\ spc' = "start_ws"
    /\ UNCHANGED << wsvars, built, avars, avars >>

\* start_websocket_server, then time.sleep(2) and monitor_processes is entered
StartWebSocket(ok) ==
    /\ spc = "start_ws"
    /\ ok => nspawn < MaxSpawns
    /\ processes' = start_server(processes, "WebSocket", nspawn + 1, ok)
    /\ alive' = IF ok THEN alive \cup {nspawn + 1} ELSE alive
    /\ nspawn' = IF ok THEN nspawn + 1 ELSE nspawn
    /\ spc' = "monitor"
    /\ UNCHANGED << wsvars, built, avars, avars >>

\* a child process ends on its own (its poll() is no longer None)
ChildExits(p) ==
    /\ p \in alive
    /\ alive' = alive \ {p}
    /\ UNCHANGED << wsvars, built, avars, spc, processes, nspawn >>

\* the entries the pass appends for the dead ones, in the order it meets them:
\* a restart whose Popen raises appends nothing
RECURSIVE restarted(_, _, _)
restarted(dead, fail, n) ==
    IF dead = << >> THEN << >>
    ELSE IF Head(dead).name \in fail
    THEN restarted(Tail(dead), fail, n)
    ELSE << Entry(Head(dead).name, n + 1) >> \o restarted(Tail(dead), fail, n + 1)

\* the pass without self.processes.remove((name, process)): the dead entries
\* stay in the list beside their replacements
MonitorPass_keep_dead(fail) ==
    /\ spc = "monitor"
    /\ LET dead == SelectSeq(processes, LAMBDA e : e.pid \notin alive)
           new == restarted(dead, fail, nspawn)
       IN  /\ nspawn + Len(new) <= MaxSpawns
           /\ processes' = processes \o new
           /\ alive' = alive \cup {new[i].pid : i \in DOMAIN new}
           /\ nspawn' = nspawn + Len(new)
    /\ UNCHANGED << wsvars, built, avars, spc >>

\* one pass of the while loop of monitor_processes after time.sleep(1): every
\* entry of the copy self.processes[:] whose process has ended is removed
\* and its service started again; `fail` are the services whose Popen raises
MonitorPass(fail) ==
    /\ spc = "monitor"
    /\ LET dead == SelectSeq(processes, LAMBDA e : e.pid \notin alive)
           kept == SelectSeq(processes, LAMBDA e : e.pid \in alive)
           new == restarted(dead, fail, nspawn)
       IN  /\ nspawn + Len(new) <= MaxSpawns
           /\ processes' = kept \o new
           /\ alive' = alive \cup {new[i].pid : i \in DOMAIN new}
           /\ nspawn' = nspawn + Len(new)
    /\ UNCHANGED << wsvars, built, avars, spc >>

\* SIGINT or SIGTERM is delivered to the supervisor: signal_handler calls
\* sys.exit(0).  SystemExit is neither a KeyboardInterrupt nor an Exception,
\* so it passes every except clause and the interpreter exits
Signal ==
    /\ spc # "exited"
    /\ spc' = "exited"
    /\ UNCHANGED << wsvars, built, avars, processes, alive, nspawn >>

SupNext ==
    \/ \E ok \in BOOLEAN : StartFlask(ok)
    \/ \E ok \in BOOLEAN : StartWebSocket(ok)
    \/ \E p \in alive : ChildExits(p)
    \/ \E fail \in SUBSET Services : MonitorPass(fail)
    \/ Signal

SupSpec == Init /\ [][SupNext]_vars

\* one session on its own: a single client, which may send SessionFrames
\* frames, with the broadcast loop running beside it
SessionNext ==
    \/ Accept(1)
    \/ Disconnect(1)
    \/ InitSendDone(1)
    \/ InitSendFail(1)
    \/ \E f \in Frames : ReceiveMalformed(1, f)
    \/ \E f \in Frames, roll \in Rolls : ReceiveRequest(1, f, roll)
    \/ ReplyDone(1)
    \/ ReplyFail(1)
    \/ HandlerClose(1)
    \/ TickIdle
    \/ TickBegin(1)
    \/ \E ok \in BOOLEAN : BroadcastLoopEnd(ok)
    \/ BroadcastPrune
    \/ \E ok \in BOOLEAN : BroadcastCrash(ok)
    \/ MainExit

SessionSpec == InitWith(SessionFrames) /\ [][SessionNext]_vars

\* the messages a tick can build, for every outcome of its draws
PayloadNext ==
    \/ \E c \in Conns : Accept(c)
    \/ \E draws \in [1..Len(switches) -> Draws] : BroadcastBuild(draws)

PayloadSpec == Init /\ [][PayloadNext]_vars

\* ---- app.py: the web application -------------------------------------------
\* Flask serves each request in a thread of its own, and start_scan starts one
\* more thread per scan; list.clear and list.extend are single operations
\* under the interpreter lock, and a step below is one of them.

\* POST /api/scan: start_scan clears the list and starts the background
\* thread.  Scans are numbered in the order their requests are served.
StartScan(s) ==
    /\ scan_pc[s] = "none"
    /\ \A t \in Scans : t < s => scan_pc[t] # "none"
    /\ discovered_switches' = << >>
    /\ scan_pc' = [scan_pc EXCEPT ![s] = "scanning"]
    /\ UNCHANGED << wsvars, built, svars, port_monitor >>

\* scan_background: discovered_switches.extend(scan_network(ip_range))
ScanBackground(s) ==
    /\ scan_pc[s] = "scanning"
    /\ discovered_switches' = discovered_switches \o scan_network
    /\ scan_pc' = [scan_pc EXCEPT ![s] = "done"]
    /\ UNCHANGED << wsvars, built, svars, port_monitor >>

\* GET /api/port-monitor
PortMonitor ==
    /\ port_monitor' = get_port_monitor_data(discovered_switches)
    /\ UNCHANGED << wsvars, built, svars, discovered_switches, scan_pc >>

AppNext ==
    \/ \E s \in Scans : StartScan(s)
    \/ \E s \in Scans : ScanBackground(s)
    \/ PortMonitor

AppSpec == Init /\ [][AppNext]_vars

\* the server with an interrupt (Ctrl+C) arriving at any moment
Shutdown ==
    \/ InterruptCaught
    \/ ServerCloseConns
    \/ WaitClosedReturns
    \/ InterruptCancel

ShutdownNext == Next \/ Shutdown

ShutdownSpec == Init /\ [][ShutdownNext]_vars

\* ---- vocabulary of the properties -----------------------------------------

Open == {c \in Conns : conn[c] = "open"}

\* connections whose handle_client has been entered and has not yet ended
Live == {c \in Conns : hpc[c] \notin {"none", "done"}}

\* no task has a step of its own left to take: every handler is absent, ended
\* or waiting for a frame on an open connection, and no tick is in progress
Quiescent ==
    /\ bpc = "sleep" \/ server = "dead"
    /\ \A c \in Conns : \/ hpc[c] \in {"none", "done"}
                        \/ hpc[c] = "recv" /\ conn[c] = "open"

\* number of port_update messages of tick t written to connection c
UpdatesOf(c, t) ==
    Cardinality({i \in DOMAIN out[c] :
                    out[c][i].type = "port_update" /\ out[c][i].tick = t})

\* the clients the running tick's iteration has yielded so far
Visited == {c \in Conns : UpdatesOf(c, tick) > 0} \cup disconnected \cup {cur}

\* a response that tells the requester its request failed
ErrorTagged(m) == m.type = "error" \/ "error" \in DOMAIN m

LastMessage(c) == out[c][Len(out[c])]

\* the step that led here was handle_client(c) receiving a frame of type t
Received(c, t) == last.op = "recv" /\ last.c = c /\ last.f.type = t

\* ---- C1 ---------------------------------------------------------------------
\* C1: the registry holds exactly the connections that connected and have not
\* left: it never holds a connection whose handler has not begun or has ended
\* (no phantom, no leak), it holds every open connection, and once every task
\* has caught up with the disconnects it is exactly the set of open connections.
RegistryIsLiveConnections ==
    /\ clients \subseteq Live
    /\ Open \subseteq clients
    /\ Quiescent => clients = Open

\* ---- C2 ---------------------------------------------------------------------
\* C2: on every connection the first message written is initial_data, so a
\* port_update is never written to a client before its own initial_data.
InitialDataFirst ==
    \A c \in Conns :
        /\ out[c] # <<>> => out[c][1].type = "initial_data"
        /\ \A i \in DOMAIN out[c] :
              out[c][i].type = "port_update" =>
                  \E j \in 1..(i - 1) : out[c][j].type = "initial_data"

\* a client registered while a tick was in progress and was sent that tick's
\* port_update while its initial send was still pending
InitialDataFirstWitness ==
    \E c \in Conns :
        /\ hpc[c] = "init_send"
        /\ c \notin tick_snapshot
        /\ bpc = "sending"
        /\ Len(out[c]) = 2
        /\ out[c][2].type = "port_update"

\* ---- C3 ---------------------------------------------------------------------
\* C3: after a frame that fails to decode, the session that received it is
\* still in its receive loop, still registered, and its connection has not
\* been closed by the server.
MalformedFrameKeepsSession ==
    \A c \in Conns :
        (last.op = "recv" /\ last.c = c /\ ~json_loads(last.f).ok) =>
            /\ hpc[c] = "recv"
            /\ conn[c] # "aborted"
            /\ conn[c] = "open" => c \in clients

\* ---- C4 ---------------------------------------------------------------------
\* C4: no send failure, registration or deregistration during a tick ends
\* start_broadcast_loop.
BroadcastLoopNeverEnds == bpc # "crashed"

\* ---- C5 ---------------------------------------------------------------------
\* C5: the connections a tick iterates (those it has yielded and those it may
\* still yield) are exactly the registry as it was when the tick began.
TickIteratesSnapshot ==
    bpc = "sending" =>
        \A todo \in Ahead : Visited \cup todo = tick_snapshot

\* ---- C6 ---------------------------------------------------------------------
\* C6: a connection that was registered when a tick began is written at most
\* one port_update of that tick.
AtMostOneUpdatePerTick ==
    bpc \in {"sending", "pruning", "crashed"} =>
        \A c \in tick_snapshot : UpdatesOf(c, tick) <= 1

\* ---- C7 ---------------------------------------------------------------------
\* C7: when a client of the tick has left while another is still connected,
\* the registry no longer holds the one that left and the broadcast loop is
\* still there to run the next tick for the other.
MidTickDisconnectKeepsLoop ==
    \A c \in tick_snapshot :
        (hpc[c] = "done" /\ \E d \in clients \ {c} : conn[d] = "open") =>
            /\ c \notin clients
            /\ bpc # "crashed"
            /\ server = "running"

\* ---- C8 ---------------------------------------------------------------------
\* C8: a get_port_status for a switch_ip that is not configured is answered
\* with an error-tagged response, and the session goes on.
UnknownSwitchStatusIsError ==
    \A c \in Conns :
        (/\ Received(c, "get_port_status")
         /\ last.f.switch_ip \notin SwitchIPs
         /\ conn[c] = "open") =>
            /\ hpc[c] # "done"
            /\ out[c] # <<>>
            /\ ErrorTagged(LastMessage(c))

\* ---- C9 ---------------------------------------------------------------------
\* C9: a get_switch_ports for a switch_ip that is not configured is answered
\* (a response is on its way to the requester) and the answer is error-tagged.
UnknownSwitchPortsIsAnswered ==
    \A c \in Conns :
        (/\ Received(c, "get_switch_ports")
         /\ last.f.switch_ip \notin SwitchIPs
         /\ conn[c] = "open") =>
            /\ hpc[c] = "reply"
            /\ ErrorTagged(LastMessage(c))

\* ---- C10 --------------------------------------------------------------------
\* C10: when a tick in which some send failed is over, every other connection
\* of the tick's snapshot has been written the tick's port_update, and no
\* failed connection has been written it more than once.
SendFailureIsolated ==
    (bpc \in {"pruning", "crashed"} /\ disconnected # {}) =>
        /\ \A d \in tick_snapshot \ disconnected : UpdatesOf(d, tick) >= 1
        /\ \A d \in disconnected : UpdatesOf(d, tick) <= 1

\* ---- C11 --------------------------------------------------------------------
\* C11: a tick's sends do not wait for one another: while the tick's send to
\* one client is still pending, every other connection of the tick that is
\* open and registered has already been written the tick's port_update.
SendsNotSerialized ==
    bpc = "sending" =>
        \A d \in tick_snapshot \ {cur} :
            (conn[d] = "open" /\ d \in clients) => UpdatesOf(d, tick) >= 1

\* ---- C12 --------------------------------------------------------------------
\* the step is one in which unregister_client(c) is called
UnregisterCalled(c) ==
    \/ InitSendFail(c)
    \/ \E f \in Frames : ReceiveMalformed(c, f)
    \/ ReplyFail(c)
    \/ HandlerClose(c)
    \/ BroadcastPrune /\ c \in disconnected
    \/ MainExit /\ hpc[c] \in {"recv", "reply"}

\* C12: cleanup happens exactly once per connection: every call of
\* unregister_client finds its connection still in the registry, whichever
\* path (initial send, broadcast loop, receive loop) makes the call.
CleanupExactlyOnce ==
    [][\A c \in Conns : UnregisterCalled(c) => c \in clients]_vars

\* ---- C13 --------------------------------------------------------------------
\* handle_client(c) is past register_client and has not ended
CompletedRegistration(c) == hpc[c] \in {"recv", "reply"}

\* C13: a connection is in the registry if and only if its handler is active
\* and has completed registration: not before its initial message has been
\* sent, and always while its handler is in the receive loop.
RegistryIffRegistered ==
    \A c \in Conns : c \in clients <=> CompletedRegistration(c)

\* ---- C14 --------------------------------------------------------------------
\* C14: once the broadcast loop has stopped because broadcast_update raised,
\* the sessions go on: a connection that was open stays open and its handler
\* keeps running.
LoopStopKeepsSessions ==
    [][bpc = "crashed" =>
          \A c \in Conns :
              (conn[c] = "open" /\ hpc[c] \in {"recv", "reply"}) =>
                  (conn'[c] = "open" /\ hpc'[c] \in {"recv", "reply"})]_vars

\* ---- C15 --------------------------------------------------------------------
\* C15: a get_switch_ports request for a configured switch is answered with a
\* switch_ports response for that switch whose ports list has as many entries
\* as the switch has configured ports (24) and whose total_ports is that count.
SwitchPortsComplete ==
    \A c \in Conns :
        (/\ Received(c, "get_switch_ports")
         /\ last.f.switch_ip \in SwitchIPs
         /\ conn[c] = "open") =>
            LET m == LastMessage(c)
                sw == find_switch(last.f.switch_ip)[1]
            IN  /\ hpc[c] = "reply"
                /\ m.type = "switch_ports"
                /\ m.switch_ip = sw.ip
                /\ Len(m.ports) = sw.ports
                /\ sw.ports = 24
                /\ m.total_ports = sw.ports

\* the last configured switch has been asked for on an open connection and the
\* response has been written
SwitchPortsCompleteWitness ==
    \E c \in Conns :
        /\ Received(c, "get_switch_ports")
        /\ last.f.switch_ip = switches[Len(switches)].ip
        /\ conn[c] = "open"
        /\ LastMessage(c).type = "switch_ports"
        /\ LastMessage(c).active_ports > 0

\* ---- C16 --------------------------------------------------------------------
\* C16: in a shutdown the broadcast loop is stopped before the connections are
\* closed: once the server has closed a connection, no tick is in progress
\* and none can begin.
BroadcastStoppedBeforeClose ==
    (\E c \in Conns : conn[c] = "going_away") =>
        bpc \notin {"sleep", "sending", "pruning"}

\* ---- C17 --------------------------------------------------------------------
\* C17: while the server is accepting connections its one broadcast loop is
\* running: asleep between ticks or inside the one tick in progress.
BroadcastLoopRunsWhileServing ==
    server = "running" => bpc \in {"sleep", "sending", "pruning"}

\* ---- C19 --------------------------------------------------------------------
\* the kinds of message the server sends
OutboundKinds == {"initial_data", "port_update", "port_status", "switch_ports"}

\* C19: every message written to any connection is of one of the four kinds
\* and carries a type tag and a timestamp.
EveryMessageStamped ==
    \A c \in Conns : \A i \in DOMAIN out[c] :
        /\ {"type", "timestamp"} \subseteq DOMAIN out[c][i]
        /\ out[c][i].type \in OutboundKinds
        /\ out[c][i].timestamp = TimeStamp

\* one connection has been written its initial_data, a tick's port_update and
\* the response to a request
EveryMessageStampedWitness ==
    \E c \in Conns :
        /\ {out[c][i].type : i \in DOMAIN out[c]} =
               {"initial_data", "port_update", "port_status"}
        /\ "data" \in DOMAIN LastMessage(c)

\* ---- C20 --------------------------------------------------------------------
\* C20: when broadcast_update is over, however it ended, no connection whose
\* send failed in it is left in the registry.
FailedSendsRemovedAfterTick ==
    bpc \in {"sleep", "crashed"} => disconnected \cap clients = {}

\* ---- C18 --------------------------------------------------------------------
\* C18: a step in which the supervisor exits from its monitoring loop (on a
\* shutdown signal) leaves no child process it tracks running.
SignalStopsChildren ==
    [][(spc = "monitor" /\ spc' = "exited") =>
          \A i \in DOMAIN processes' : processes'[i].pid \notin alive']_vars

\* ---- C21 --------------------------------------------------------------------
\* C21: when the initial send fails the handler ends in that very step, with
\* its connection out of the registry; and a handler whose connection the
\* failed initial send has unregistered (before any tick could have done it)
\* takes no frame from it.
FailedInitialSendEndsSession ==
    [][\A c \in Conns :
          /\ InitSendFail(c) => (hpc'[c] = "done" /\ c \notin clients')
          /\ (tick = 0 /\ hpc[c] = "recv" /\ c \notin clients) =>
                 nframes' = nframes]_vars

\* ---- C22 --------------------------------------------------------------------
\* C22: a connection whose handler has ended, in whatever way, is not in the
\* registry.
EndedHandlerUnregistered ==
    \A c \in Conns : hpc[c] = "done" => c \notin clients

\* ---- C23 --------------------------------------------------------------------
\* the step is handle_client(c) taking a request and dispatching it
Dispatched(c) == \E f \in Frames, roll \in Rolls : ReceiveRequest(c, f, roll)

\* C23: dispatching a request of connection c, and completing its reply,
\* writes to no other connection and leaves the registry as it was.
ReplyOnlyToRequester ==
    [][\A c \in Conns :
          (Dispatched(c) \/ ReplyDone(c)) =>
              /\ clients' = clients
              /\ \A d \in Conns \ {c} : out'[d] = out[d]]_vars

\* a request of one connection has been answered while another connection
\* was open and registered
ReplyOnlyToRequesterWitness ==
    \E c \in Conns : \E d \in Conns \ {c} :
        /\ Received(c, "get_port_status")
        /\ conn[c] = "open"
        /\ LastMessage(c).type = "port_status"
        /\ conn[d] = "open"
        /\ d \in clients
        /\ hpc[d] = "recv"

\* ---- C27 --------------------------------------------------------------------
\* C27: once every scan that was started has finished, discovered_switches
\* holds the result of one scan: no switch IP appears in it twice.
ScansLeaveOneResult ==
    (\A s \in Scans : scan_pc[s] # "scanning") =>
        \A i, j \in DOMAIN discovered_switches :
            discovered_switches[i].ip = discovered_switches[j].ip => i = j

\* ---- C29 --------------------------------------------------------------------
\* C29: in a port-monitor response each switch's activePorts is the number of
\* its returned ports whose status is up, and stats.totalConnections is the
\* number of returned connections whose status is up.
PortMonitorCountsUp ==
    port_monitor # NoResponse =>
        /\ \A ip \in DOMAIN port_monitor.switches :
              LET sw == port_monitor.switches[ip]
              IN  sw.activePorts =
                     Cardinality({p \in DOMAIN sw.ports : sw.ports[p].status = "up"})
        /\ port_monitor.stats.totalConnections =
              Cardinality({i \in DOMAIN port_monitor.connections :
                              port_monitor.connections[i].status = "up"})

\* ---- C24 --------------------------------------------------------------------
\* C24: a port_update has one entry per configured switch, in configured
\* order, and each entry has between 1 and 5 port records whose port numbers
\* are pairwise distinct and lie within 1..the switch's port count.
UpdateCoversEverySwitch ==
    built # NoMessage =>
        /\ built.type = "port_update"
        /\ Len(built.updates) = Len(switches)
        /\ \A i \in DOMAIN built.updates :
              LET u == built.updates[i]
              IN  /\ u.switch_ip = switches[i].ip
                  /\ u.switch_name = switches[i].name
                  /\ Len(u.ports) \in 1..5
                  /\ \A j \in DOMAIN u.ports :
                        u.ports[j].port_number \in 1..switches[i].ports
                  /\ \A j, k \in DOMAIN u.ports :
                        u.ports[j].port_number = u.ports[k].port_number => j = k

\* a message has been built whose entries have 1, 5 and 3 ports
UpdateCoversEverySwitchWitness ==
    /\ built # NoMessage
    /\ Len(built.updates[1].ports) = 1
    /\ Len(built.updates[2].ports) = 5
    /\ Len(built.updates[3].ports) = 3
    /\ built.updates[2].ports[1].port_number # built.updates[3].ports[1].port_number

\* ---- C25 --------------------------------------------------------------------
\* C25: the ports list of a switch_ports response holds the port numbers
\* 1..24 in ascending order, each once, and active_ports is the number of its
\* entries whose status is up.
SwitchPortsOrderedAndCounted ==
    \A c \in Conns :
        (/\ Received(c, "get_switch_ports")
         /\ last.f.switch_ip \in SwitchIPs
         /\ conn[c] = "open") =>
            LET m == LastMessage(c)
            IN  /\ m.type = "switch_ports"
                /\ DOMAIN m.ports = 1..24
                /\ \A i \in DOMAIN m.ports : m.ports[i].port_number = i
                /\ m.active_ports =
                      Cardinality({i \in DOMAIN m.ports : m.ports[i].status = "up"})

\* a response has been written in which some ports are up, some are not, and
\* some of those are not down either
SwitchPortsOrderedAndCountedWitness ==
    \E c \in Conns :
        /\ Received(c, "get_switch_ports")
        /\ last.f.switch_ip = switches[2].ip
        /\ conn[c] = "open"
        /\ LastMessage(c).type = "switch_ports"
        /\ LastMessage(c).active_ports \in 1..23
        /\ \E i \in 1..24 : LastMessage(c).ports[i].status = "error"

\* ---- C26 --------------------------------------------------------------------
\* the services that have an entry in self.processes
Tracked == {processes[i].name : i \in DOMAIN processes}

\* C26: a monitor pass loses no service: a service that was tracked before
\* the pass is tracked after it (by its restarted process, or still by the
\* dead one so that a later pass tries again), also when its restart fails.
RestartKeepsService ==
    [][(spc = "monitor" /\ spc' = "monitor") => Tracked \subseteq Tracked']_vars

\* ---- C28 --------------------------------------------------------------------
\* C28: a connection's handler takes the next frame only when the reply to
\* the frame before has been sent: in the step in which it takes a frame, no
\* reply of its own is written and still waiting for its send to return.
RequestsOneAtATime ==
    [][\A c \in Conns :
          (Dispatched(c) \/ \E f \in Frames : ReceiveMalformed(c, f)) =>
              ~hwritten[c]]_vars

\* a connection has been answered twice, the second request having been
\* taken after the first reply's send returned
RequestsOneAtATimeWitness ==
    \E c \in Conns :
        /\ nframes = 0
        /\ Received(c, "get_switch_ports")
        /\ hpc[c] = "reply"
        /\ Len(out[c]) >= 3
        /\ out[c][Len(out[c]) - 1].type = "port_status"
        /\ LastMessage(c).type = "switch_ports"

\* ---- C30 --------------------------------------------------------------------
\* a frame that decodes and whose type is none of the request types
OtherTypeFrames ==
    {f \in Frames : f.valid /\ f.type \notin {"get_port_status", "get_switch_ports"}}

\* C30: a frame that decodes but has another type is ignored: the step that
\* takes it writes nothing to any connection, leaves the registry and the
\* connections as they were, and the handler is back at its receive loop.
OtherTypeIgnored ==
    [][\A c \in Conns : \A f \in OtherTypeFrames : \A roll \in Rolls :
          ReceiveRequest(c, f, roll) =>
              /\ out' = out
              /\ clients' = clients
              /\ conn' = conn
              /\ hpc'[c] = "recv"]_vars

\* an open, registered connection has sent such a frame
OtherTypeIgnoredWitness ==
    \E c \in Conns :
        /\ Received(c, "ping")
        /\ conn[c] = "open"
        /\ c \in clients
        /\ hpc[c] = "recv"
        /\ Len(out[c]) = 1

\* ---- C31 --------------------------------------------------------------------
\* C31: self.processes holds at most one entry per service name: no two
\* positions of the list carry the same name, whatever processes have ended
\* and been started again.
OneEntryPerService ==
    \A i, j \in DOMAIN processes :
        processes[i].name = processes[j].name => i = j

\* both services have ended and been started again, and both replacements are
\* in the list
OneEntryPerServiceWitness ==
    /\ spc = "monitor"
    /\ Tracked = Services
    /\ \A i \in DOMAIN processes : processes[i].pid > 2

====
